---------------------------- MODULE Spec2Model ----------------------------
(***************************************************************************)
(* A model of the NACOS e-voting backend (FastAPI + SQLAlchemy, SQLite by   *)
(* default: src/app/config.py:5).  The state is the content of the          *)
(* relational tables of src/app/models.py, the clock, the cast_vote         *)
(* requests that have passed validation and not yet committed, and the      *)
(* last HTTP response sent.  Times are integers (UTC instants).             *)
(*                                                                         *)
(* Eight specifications share the variables: Spec (cast_vote),             *)
(* SpecElection (create_election), SpecManage (update_election,             *)
(* get_current_election), SpecUsers (startup, register_user, create_admin,  *)
(* create_auditor), SpecAccounts (admins and auditors created and deleted,  *)
(* login, get_logs), SpecBootstrap (startup with the deletions), SpecTokens *)
(* (tokens presented after deletions) and SpecResults (live_results,        *)
(* auditor_results).                                                        *)
(***************************************************************************)
EXTENDS Integers, Sequences, FiniteSets, Bags, TLC

VARIABLES
    now,         \* the clock read by datetime.utcnow() / datetime.now(utc)
    users,       \* table users
    elections,   \* table elections
    candidates,  \* table candidates
    votes,       \* table votes
    audit,       \* table audit_logs, in insertion order
    pending,     \* bag of requests (cast_vote, register_user) between validation and commit
    resp         \* the last response sent to a client

vars == <<now, users, elections, candidates, votes, audit, pending, resp>>

-----------------------------------------------------------------------------
(* Bounds of the model *)

MaxTime == 3        \* the clock runs over 0..MaxTime
MaxPending == 2     \* requests in flight at once
MaxBallot == 2      \* longest candidate_ids list submitted
MaxToken == 2       \* distinct values of the random part of a receipt
MaxElections == 1   \* elections created by create_election (SpecElection)
MaxUpdates == 1     \* update_election calls audited (SpecManage)
MaxAudit == 4       \* entries of the audit table (SpecAccounts)

Times == 0..MaxTime
Tokens == 1..MaxToken

NULL == "NULL"      \* SQL NULL / Python None in a string column

-----------------------------------------------------------------------------
(* models.py: enumerations and rows *)

UserRole == {"voter", "admin", "superadmin", "auditor"}

ElectionStatus == {"upcoming", "ongoing", "completed"}

User(id, email, student_id, hashed_password, role) ==
    [id |-> id, email |-> email, student_id |-> student_id,
     hashed_password |-> hashed_password, role |-> role]

Election(id, title, start_date, end_date, status) ==
    [id |-> id, title |-> title, start_date |-> start_date,
     end_date |-> end_date, status |-> status]

Candidate(id, election_id, name, position) ==
    [id |-> id, election_id |-> election_id, name |-> name,
     position |-> position]

Vote(id, user_id, candidate_id, election_id, position, timestamp, receipt_id) ==
    [id |-> id, user_id |-> user_id, candidate_id |-> candidate_id,
     election_id |-> election_id, position |-> position,
     timestamp |-> timestamp, receipt_id |-> receipt_id]

AuditLog(user_email, action, status, text, name, election, ids) ==
    [user_email |-> user_email, action |-> action, status |-> status,
     details |-> [text |-> text, name |-> name, election |-> election,
                  ids |-> ids]]

\* Column(Enum(ElectionStatus)) on a VARCHAR column: a string outside the
\* enumeration is written as is, and loading a row that holds one raises
\* LookupError.
Loadable(e) == e.status \in ElectionStatus

-----------------------------------------------------------------------------
(* Responses *)

\* A response, with the request it answers: the operation, the caller, the
\* election and (for the answer to a committed ballot) the candidate ids.
Response(op, user, election, ids, code, detail, receipt) ==
    [op |-> op, user |-> user, election |-> election, ids |-> ids,
     code |-> code, detail |-> detail, receipt |-> receipt]

NoResponse == Response("none", 0, 0, <<>>, 0, "", 0)

-----------------------------------------------------------------------------
(* auth.py: password utilities *)

\* pwd_context.hash: the stored form of a password
get_password_hash(password) == <<"bcrypt", password>>

\* mutant: every password verifies
verify_password_Any(plain_password, hashed_password) == TRUE

\* pwd_context.verify
verify_password(plain_password, hashed_password) ==
    hashed_password = get_password_hash(plain_password)

-----------------------------------------------------------------------------
(* dependencies.py *)

\* mutant: no superadmin override
require_role_NoOverride(user, roles) == user.role \in roles

\* mutant: the guard lets every caller through
require_role_Everyone(user, roles) == TRUE

\* require_role(*roles): the guard's verdict for a caller
require_role(user, roles) ==
    IF user.role = "superadmin" THEN TRUE
    ELSE user.role \in roles

-----------------------------------------------------------------------------
(* routers/admin.py: helpers *)

\* A datetime as a request carries it: a wall-clock reading, naive or with a
\* UTC offset.
DateTime(wall, aware, offset) == [wall |-> wall, aware |-> aware, offset |-> offset]

\* naive readings, and readings one hour east of UTC (the unit of time)
DateInputs ==
    {DateTime(w, FALSE, 0) : w \in Times} \cup {DateTime(w, TRUE, 1) : w \in Times}

\* to_utc: a naive value is tagged UTC, an aware one is shifted to UTC
to_utc(dt) == IF dt.aware THEN dt.wall - dt.offset ELSE dt.wall

\* get_election_status(election), as a function of the two dates and the clock
get_election_status(start_date, end_date, t) ==
    IF start_date > t THEN "upcoming"
    ELSE IF end_date < t THEN "ended"
    ELSE "active"

-----------------------------------------------------------------------------
(* routers/elections.py: pure parts *)

\* the inline status computation of get_current_election
computed_status(start_date, end_date, t) ==
    IF start_date > t THEN "upcoming"
    ELSE IF end_date < t THEN "ended"
    ELSE "active"

\* the gate of cast_vote: election.start_date <= now <= election.end_date
IsActiveWindow(start_date, end_date, t) == start_date <= t /\ t <= end_date

Range(s) == {s[i] : i \in DOMAIN s}

\* db.query(Election).filter(Election.id == election_id): the matching rows
ElectionRows(election_id) == {e \in elections : e.id = election_id}

\* the "existing_vote" query of cast_vote
existing_vote(user_id, election_id) ==
    {v \in votes : v.user_id = user_id /\ v.election_id = election_id}

\* mutant: the query does not filter on the election
valid_candidates_AnyElection(candidate_ids, election_id) ==
    {c \in candidates : c.id \in Range(candidate_ids)}

\* the "valid_candidates" query of cast_vote
valid_candidates(candidate_ids, election_id) ==
    {c \in candidates : c.id \in Range(candidate_ids) /\ c.election_id = election_id}

Accepted == "accepted"

\* mutant: the election is looked up before the role is checked
CastVoteCheck_LookupFirst(u, election_id, candidate_ids) ==
    IF ElectionRows(election_id) = {}
    THEN [code |-> 404, detail |-> "Election not found"]
    ELSE IF u.role # "voter"
    THEN [code |-> 403, detail |-> "Only voters can cast votes"]
    ELSE LET election == CHOOSE e \in ElectionRows(election_id) : TRUE IN
    IF ~Loadable(election)
    THEN [code |-> 500, detail |-> "LookupError"]
    ELSE IF ~IsActiveWindow(election.start_date, election.end_date, now)
    THEN [code |-> 400, detail |-> "Election is not active"]
    ELSE IF existing_vote(u.id, election_id) # {}
    THEN [code |-> 400, detail |-> "User already voted in this election"]
    ELSE IF candidate_ids = <<>>
    THEN [code |-> 400, detail |-> "candidate_ids must be a non-empty list"]
    ELSE IF Cardinality(valid_candidates(candidate_ids, election_id)) # Len(candidate_ids)
    THEN [code |-> 400, detail |-> "One or more candidates are invalid"]
    ELSE [code |-> 200, detail |-> Accepted]

\* mutant: the role check is the guard require_role("voter"), which lets the
\* superadmin through
CastVoteCheck_Override(u, election_id, candidate_ids) ==
    IF ~require_role(u, {"voter"})
    THEN [code |-> 403, detail |-> "Only voters can cast votes"]
    ELSE IF ElectionRows(election_id) = {}
    THEN [code |-> 404, detail |-> "Election not found"]
    ELSE LET election == CHOOSE e \in ElectionRows(election_id) : TRUE IN
    IF ~Loadable(election)
    THEN [code |-> 500, detail |-> "LookupError"]
    ELSE IF ~IsActiveWindow(election.start_date, election.end_date, now)
    THEN [code |-> 400, detail |-> "Election is not active"]
    ELSE IF existing_vote(u.id, election_id) # {}
    THEN [code |-> 400, detail |-> "User already voted in this election"]
    ELSE IF candidate_ids = <<>>
    THEN [code |-> 400, detail |-> "candidate_ids must be a non-empty list"]
    ELSE IF Cardinality(valid_candidates(candidate_ids, election_id)) # Len(candidate_ids)
    THEN [code |-> 400, detail |-> "One or more candidates are invalid"]
    ELSE [code |-> 200, detail |-> Accepted]

\* cast_vote up to its last read of the store: the HTTP error it raises, or
\* Accepted when every check passes.
CastVoteCheck(u, election_id, candidate_ids) ==
    IF u.role # "voter"
    THEN [code |-> 403, detail |-> "Only voters can cast votes"]
    ELSE IF ElectionRows(election_id) = {}
    THEN [code |-> 404, detail |-> "Election not found"]
    ELSE LET election == CHOOSE e \in ElectionRows(election_id) : TRUE IN
    IF ~Loadable(election)
    THEN [code |-> 500, detail |-> "LookupError"]
    ELSE IF ~IsActiveWindow(election.start_date, election.end_date, now)
    THEN [code |-> 400, detail |-> "Election is not active"]
    ELSE IF existing_vote(u.id, election_id) # {}
    THEN [code |-> 400, detail |-> "User already voted in this election"]
    ELSE IF candidate_ids = <<>>
    THEN [code |-> 400, detail |-> "candidate_ids must be a non-empty list"]
    ELSE IF Cardinality(valid_candidates(candidate_ids, election_id)) # Len(candidate_ids)
    THEN [code |-> 400, detail |-> "One or more candidates are invalid"]
    ELSE [code |-> 200, detail |-> Accepted]

-----------------------------------------------------------------------------
(* The store: primary keys and the constraints of the votes table *)

MaxOf(S) == IF S = {} THEN 0 ELSE CHOOSE m \in S : \A x \in S : x <= m

\* the next autoincrement primary key of a table
NextId(table) == MaxOf({r.id : r \in table}) + 1

\* mutant: the position column accepts NULL
NotNullOK_Missing(rows) == TRUE

\* votes.position is nullable=False
NotNullOK(rows) == \A r \in rows : r.position # NULL

\* votes.receipt_id is unique=True
ReceiptUniqueOK(table, rows) ==
    \A r1 \in table \cup rows : \A r2 \in rows :
        r1.id # r2.id => r1.receipt_id # r2.receipt_id

\* uq_user_election_position_vote; SQL NULLs never collide
PositionUniqueOK(table, rows) ==
    \A r1 \in table \cup rows : \A r2 \in rows :
        (r1.id # r2.id /\ r1.position # NULL /\ r2.position # NULL)
            => ~(r1.user_id = r2.user_id /\ r1.election_id = r2.election_id
                 /\ r1.position = r2.position)

\* the INSERTs of one flush pass every constraint of the table
IntegrityOK(table, rows) ==
    /\ NotNullOK(rows)
    /\ ReceiptUniqueOK(table, rows)
    /\ PositionUniqueOK(table, rows)

\* mutant: a commit that fails leaves its rows in the table
CommitRows_NoRollback(table, rows) == table \cup rows

\* mutant: the first row is committed on its own, before the others are
\* flushed, and stays when the flush fails
CommitRows_KeepFirst(table, rows) ==
    IF IntegrityOK(table, rows) THEN table \cup rows
    ELSE table \cup {r \in rows : r.id = NextId(table)}

\* db.commit(): one transaction, all the rows or (IntegrityError, rollback) none
CommitRows(table, rows) ==
    IF IntegrityOK(table, rows) THEN table \cup rows ELSE table

-----------------------------------------------------------------------------
(* routers/elections.py: get_current_election *)

\* filter(Election.end_date >= now)
NotEnded(t) == {e \in elections : e.end_date >= t}

\* order_by(Election.start_date.asc()).first(): a row with the least
\* start_date, any one of them when several share it
EarliestStart(rows) == {e \in rows : \A x \in rows : e.start_date <= x.start_date}

\* get_current_election, for any logged-in caller
GetCurrentElection(u) ==
    /\ IF NotEnded(now) = {}
       THEN resp' = Response("get_current_election", u.id, 0, <<>>, 404,
                             "No active or upcoming election found", 0)
       ELSE \E election \in EarliestStart(NotEnded(now)) :
              resp' = IF ~Loadable(election)
                      THEN Response("get_current_election", u.id, 0, <<>>, 500, "LookupError", 0)
                      ELSE IF computed_status(election.start_date, election.end_date, now) = "ended"
                      THEN Response("get_current_election", u.id, 0, <<>>, 404,
                                    "No active election found", 0)
                      ELSE Response("get_current_election", u.id, election.id, <<>>, 200,
                                    "election", 0)
    /\ UNCHANGED <<now, users, elections, candidates, votes, audit, pending>>

-----------------------------------------------------------------------------
(* routers/elections.py: cast_vote *)

\* the Vote objects built by the loop of cast_vote: position is not given,
\* timestamp takes its default when the row is inserted
VoteRows(u, election_id, candidate_ids, receipt, t, base) ==
    {Vote(base + i, u.id, candidate_ids[i], election_id, NULL, t, receipt) :
        i \in 1..Len(candidate_ids)}

Request(u, election_id, candidate_ids) ==
    [user |-> u, election_id |-> election_id, candidate_ids |-> candidate_ids]

ElectionIds == 1..(Cardinality(elections) + 1)

CandidateIds == 1..(Cardinality(candidates) + 1)

\* the candidate_ids lists a client may send
Ballots == UNION {[1..k -> CandidateIds] : k \in 0..MaxBallot}

\* cast_vote, from the role check to the last validation query
CastVoteValidate(u, election_id, candidate_ids) ==
    LET out == CastVoteCheck(u, election_id, candidate_ids) IN
    IF out.detail = Accepted
    THEN /\ BagCardinality(pending) < MaxPending
         /\ pending' = pending (+) SetToBag({Request(u, election_id, candidate_ids)})
         /\ UNCHANGED <<now, users, elections, candidates, votes, audit, resp>>
    ELSE /\ resp' = Response("cast_vote", u.id, election_id, <<>>, out.code, out.detail, 0)
         /\ UNCHANGED <<now, users, elections, candidates, votes, audit, pending>>

\* the audit entry cast_vote adds to the session with its rows
SubmitVoteAudit(r) ==
    AuditLog(r.user.email, "Submit Vote", "success", "Voted for candidates", "",
             r.election_id, r.candidate_ids)

\* cast_vote, from the receipt to the response: the rows, the audit entry and
\* the single commit
CastVoteCommit(r, token) ==
    LET rows == VoteRows(r.user, r.election_id, r.candidate_ids, token, now, NextId(votes) - 1) IN
    /\ BagIn(r, pending)
    /\ pending' = pending (-) SetToBag({r})
    /\ votes' = CommitRows(votes, rows)
    /\ IF IntegrityOK(votes, rows)
       THEN /\ audit' = Append(audit, SubmitVoteAudit(r))
            /\ resp' = Response("cast_vote", r.user.id, r.election_id, r.candidate_ids,
                                200, "success", token)
       ELSE /\ audit' = audit
            /\ resp' = Response("cast_vote", r.user.id, r.election_id, r.candidate_ids,
                                500, "IntegrityError", 0)
    /\ UNCHANGED <<now, users, elections, candidates>>

\* time passes
Tick ==
    /\ now < MaxTime
    /\ now' = now + 1
    /\ UNCHANGED <<users, elections, candidates, votes, audit, pending, resp>>

-----------------------------------------------------------------------------
(* routers/admin.py: create_election, add_candidate *)

\* the row create_election stores
CreateElectionRow(table, title, start_date, end_date, t) ==
    Election(NextId(table), title, to_utc(start_date), to_utc(end_date),
             get_election_status(to_utc(start_date), to_utc(end_date), t))

CreateElectionAudit(u, title) ==
    AuditLog(u.email, "Create Election", "success", "Created election", title, 0, <<>>)

\* create_election: the row is committed, then refreshed (which loads it),
\* then the audit entry is committed
CreateElection(u, title, start_date, end_date) ==
    LET ev == CreateElectionRow(elections, title, start_date, end_date, now) IN
    IF ~require_role(u, {"admin", "superadmin"})
    THEN /\ resp' = Response("create_election", u.id, 0, <<>>, 403, "role required", 0)
         /\ UNCHANGED <<now, users, elections, candidates, votes, audit, pending>>
    ELSE /\ Cardinality(elections) < MaxElections
         /\ elections' = elections \cup {ev}
         /\ IF Loadable(ev)
            THEN /\ audit' = Append(audit, CreateElectionAudit(u, title))
                 /\ resp' = Response("create_election", u.id, ev.id, <<>>, 201, "created", 0)
            ELSE /\ audit' = audit
                 /\ resp' = Response("create_election", u.id, ev.id, <<>>, 500, "LookupError", 0)
         /\ UNCHANGED <<now, users, candidates, votes, pending>>

\* an Optional field of a request body: <<>> when absent, <<value>> when given
Given(field) == field # <<>>

\* get_election_status on the election update_election holds: a date the
\* request gave is aware (to_utc), a date loaded from the store is naive, and
\* comparing a naive date with the aware clock raises TypeError
get_election_status_in_update(start_aware, end_aware, start_date, end_date, t) ==
    IF ~start_aware THEN "TypeError"
    ELSE IF start_date > t THEN get_election_status(start_date, end_date, t)
    ELSE IF ~end_aware THEN "TypeError"
    ELSE get_election_status(start_date, end_date, t)

\* the election as update_election leaves it in the session before the commit
UpdateElectionRow(election, title, start_date, end_date, t) ==
    LET new_start == IF Given(start_date) THEN to_utc(start_date[1]) ELSE election.start_date
        new_end == IF Given(end_date) THEN to_utc(end_date[1]) ELSE election.end_date
    IN  [election EXCEPT
            !.title = IF title \notin {NULL, ""} THEN title ELSE election.title,
            !.start_date = new_start,
            !.end_date = new_end,
            !.status = get_election_status_in_update(Given(start_date), Given(end_date),
                                                     new_start, new_end, t)]

UpdateElectionAudit(u, election_id) ==
    AuditLog(u.email, "Update Election", "success", "Updated election", "", election_id, <<>>)

\* updates audited so far stay below the bound of the model
UpdateRoom ==
    Cardinality({i \in DOMAIN audit : audit[i].action = "Update Election"}) < MaxUpdates

\* mutant: the recomputed status is written to every election
UpdateElectionStore_AllStatuses(table, election, row) ==
    IF row.status = "TypeError" THEN table
    ELSE {[x EXCEPT !.status = row.status] : x \in (table \ {election}) \cup {row}}

\* the elections table after update_election: the TypeError is raised before
\* db.commit(), so the session's changes are dropped
UpdateElectionStore(table, election, row) ==
    IF row.status = "TypeError" THEN table ELSE (table \ {election}) \cup {row}

\* update_election
UpdateElection(u, election_id, title, start_date, end_date) ==
    IF ~require_role(u, {"admin", "superadmin"})
    THEN /\ resp' = Response("update_election", u.id, election_id, <<>>, 403, "role required", 0)
         /\ UNCHANGED <<now, users, elections, candidates, votes, audit, pending>>
    ELSE IF ElectionRows(election_id) = {}
    THEN /\ resp' = Response("update_election", u.id, election_id, <<>>, 404, "Election not found", 0)
         /\ UNCHANGED <<now, users, elections, candidates, votes, audit, pending>>
    ELSE \E election \in ElectionRows(election_id) :
         LET row == UpdateElectionRow(election, title, start_date, end_date, now) IN
         IF ~Loadable(election)
         THEN /\ resp' = Response("update_election", u.id, election_id, <<>>, 500, "LookupError", 0)
              /\ UNCHANGED <<now, users, elections, candidates, votes, audit, pending>>
         ELSE /\ elections' = UpdateElectionStore(elections, election, row)
              /\ IF row.status = "TypeError"
                 THEN /\ audit' = audit
                      /\ resp' = Response("update_election", u.id, election_id, <<>>, 500, "TypeError", 0)
                 ELSE IF ~Loadable(row)
                 THEN /\ audit' = audit
                      /\ resp' = Response("update_election", u.id, election_id, <<>>, 500, "LookupError", 0)
                 ELSE /\ UpdateRoom
                      /\ audit' = Append(audit, UpdateElectionAudit(u, election_id))
                      /\ resp' = Response("update_election", u.id, election_id, <<>>, 200, "updated", 0)
              /\ UNCHANGED <<now, users, candidates, votes, pending>>

\* the row add_candidate stores
AddCandidateRow(table, election_id, name, position) ==
    Candidate(NextId(table), election_id, name, position)

AddCandidateAudit(u, election_id, name) ==
    AuditLog(u.email, "Add Candidate", "success", "Added candidate", name, election_id, <<>>)

-----------------------------------------------------------------------------
(* main.py startup_event and routers/users.py register_user: the users *)

\* the default superadmin created at startup when there is none
StartupUsers ==
    {User(1, "superadmin@nacos.com", "NACOS-0000", get_password_hash("admin123"),
          "superadmin")}

SuperAdmin == CHOOSE u \in StartupUsers : TRUE

\* the row register_user stores: the role is always voter
RegisterRow(table, email, student_id, password) ==
    User(NextId(table), email, student_id, get_password_hash(password), "voter")

RegisterAudit(email) ==
    AuditLog(email, "User Registration", "success", "Registered voter", email, 0, <<>>)

\* the users after startup and one registration
InitUsers == StartupUsers \cup {RegisterRow(StartupUsers, "v1@x.com", NULL, "pw1")}

-----------------------------------------------------------------------------
(* main.py: startup_event *)

\* requests are served once startup_event has run; the superadmin it leaves
\* is never deleted (delete_admin and delete_auditor filter on the role)
Started == \E u \in users : u.role = "superadmin"

\* users.email is unique=True
EmailUniqueOK(table, row) == \A u \in table : u.email # row.email

\* users.student_id is unique=True, nullable: SQL NULLs never collide
StudentIdUniqueOK(table, row) ==
    row.student_id # NULL => \A u \in table : u.student_id # row.student_id

UserIntegrityOK(table, row) ==
    EmailUniqueOK(table, row) /\ StudentIdUniqueOK(table, row)

\* startup_event: the default superadmin is inserted when no user has the
\* role; nothing is audited and no response is sent
Startup ==
    /\ IF {u \in users : u.role = "superadmin"} = {}
       THEN \E row \in StartupUsers :
               LET super_admin == [row EXCEPT !.id = NextId(users)] IN
               users' = IF UserIntegrityOK(users, super_admin)
                        THEN users \cup {super_admin} ELSE users
       ELSE users' = users
    /\ UNCHANGED <<now, elections, candidates, votes, audit, pending, resp>>

-----------------------------------------------------------------------------
(* routers/users.py: register_user *)

Emails == {"a@x.com", "b@x.com"}

StudentIds == {NULL, "S1"}

Passwords == {"pw1"}

\* an Optional[str] whose characters matter: None, or a string
None == [none |-> TRUE, chars |-> <<>>]

Str(chars) == [none |-> FALSE, chars |-> chars]

Levels ==
    {None, Str(<<>>), Str(<<"H", "N", "D", "2">>), Str(<<"h", "n", "d", "1">>),
     Str(<<"N", "D", "1">>)}

Courses == {NULL, "", "CS"}

\* the role field a UserCreate body may carry
RequestRoles == {"voter", "admin"}

\* str.upper on the letters that occur
Upper(c) ==
    CASE c = "h" -> "H" [] c = "n" -> "N" [] c = "d" -> "D" [] OTHER -> c

upper(chars) == [i \in DOMAIN chars |-> Upper(chars[i])]

startswith(chars, prefix) ==
    Len(chars) >= Len(prefix) /\ SubSeq(chars, 1, Len(prefix)) = prefix

\* user_in.level and user_in.level.upper().startswith("HND") and not user_in.course
CourseMissing(level, course) ==
    /\ ~level.none /\ level.chars # <<>>
    /\ startswith(upper(level.chars), <<"H", "N", "D">>)
    /\ course \in {NULL, ""}

\* the "existing" query of register_user; student_id == None is rendered
\* as IS NULL, so a request without student_id matches every user without one
existing_user(email, student_id) ==
    {u \in users : u.email = email \/ u.student_id = student_id}

\* mutant: the course requirement is not checked
RegisterCheck_NoCourseCheck(email, student_id, level, course) ==
    IF existing_user(email, student_id) # {}
    THEN [code |-> 409, detail |-> "Email or Student ID already registered"]
    ELSE [code |-> 201, detail |-> Accepted]

\* register_user up to its read of the store
RegisterCheck(email, student_id, level, course) ==
    IF CourseMissing(level, course)
    THEN [code |-> 400, detail |-> "Course is required for HND students"]
    ELSE IF existing_user(email, student_id) # {}
    THEN [code |-> 409, detail |-> "Email or Student ID already registered"]
    ELSE [code |-> 201, detail |-> Accepted]

\* what register_user keeps of the body once the checks have passed: the
\* role field is never read
RegisterRequest(email, student_id, password) ==
    [email |-> email, student_id |-> student_id, password |-> password]

\* register_user, from the course check to the uniqueness query
RegisterValidate(email, student_id, password, level, course, role) ==
    LET out == RegisterCheck(email, student_id, level, course) IN
    /\ Started
    /\ IF out.detail = Accepted
       THEN /\ BagCardinality(pending) < MaxPending
            /\ pending' = pending (+) SetToBag({RegisterRequest(email, student_id, password)})
            /\ UNCHANGED <<now, users, elections, candidates, votes, audit, resp>>
       ELSE /\ resp' = Response("register_user", 0, 0, <<>>, out.code, out.detail, 0)
            /\ UNCHANGED <<now, users, elections, candidates, votes, audit, pending>>

\* register_user, from the row to the response: the user and the audit entry
\* go into one commit
RegisterCommit(r) ==
    LET user == RegisterRow(users, r.email, r.student_id, r.password) IN
    /\ BagIn(r, pending)
    /\ pending' = pending (-) SetToBag({r})
    /\ IF UserIntegrityOK(users, user)
       THEN /\ users' = users \cup {user}
            /\ audit' = Append(audit, RegisterAudit(r.email))
            /\ resp' = Response("register_user", user.id, 0, <<>>, 201, "created", 0)
       ELSE /\ users' = users
            /\ audit' = audit
            /\ resp' = Response("register_user", 0, 0, <<>>, 500, "IntegrityError", 0)
    /\ UNCHANGED <<now, elections, candidates, votes>>

-----------------------------------------------------------------------------
(* routers/superadmin.py and routers/admin.py: admins and auditors *)

\* the audit table takes an entry (bound of the model)
AuditRoom == Len(audit) < MaxAudit

CreateAdminAudit(u, email) ==
    AuditLog(u.email, "Create Admin", "success", "Created admin", email, 0, <<>>)

\* create_admin: student_id, level, course and role of the body are not used
CreateAdmin(u, email, password, role) ==
    IF ~require_role(u, {"superadmin"})
    THEN /\ resp' = Response("create_admin", u.id, 0, <<>>, 403, "role required", 0)
         /\ UNCHANGED <<now, users, elections, candidates, votes, audit, pending>>
    ELSE IF {x \in users : x.email = email} # {}
    THEN /\ resp' = Response("create_admin", u.id, 0, <<>>, 409, "Email already registered", 0)
         /\ UNCHANGED <<now, users, elections, candidates, votes, audit, pending>>
    ELSE LET admin == User(NextId(users), email, NULL, get_password_hash(password), "admin") IN
         /\ AuditRoom
         /\ users' = users \cup {admin}
         /\ audit' = Append(audit, CreateAdminAudit(u, email))
         /\ resp' = Response("create_admin", u.id, 0, <<>>, 201, "created", 0)
         /\ UNCHANGED <<now, elections, candidates, votes, pending>>

CreateAuditorAudit(u, email) ==
    AuditLog(u.email, "Create Auditor", "success", "Created auditor", email, 0, <<>>)

\* create_auditor
CreateAuditor(u, email, password, role) ==
    IF ~require_role(u, {"admin", "superadmin"})
    THEN /\ resp' = Response("create_auditor", u.id, 0, <<>>, 403, "role required", 0)
         /\ UNCHANGED <<now, users, elections, candidates, votes, audit, pending>>
    ELSE IF {x \in users : x.email = email} # {}
    THEN /\ resp' = Response("create_auditor", u.id, 0, <<>>, 409, "Email already registered", 0)
         /\ UNCHANGED <<now, users, elections, candidates, votes, audit, pending>>
    ELSE LET auditor == User(NextId(users), email, NULL, get_password_hash(password), "auditor") IN
         /\ AuditRoom
         /\ users' = users \cup {auditor}
         /\ audit' = Append(audit, CreateAuditorAudit(u, email))
         /\ resp' = Response("create_auditor", u.id, 0, <<>>, 201, "created", 0)
         /\ UNCHANGED <<now, elections, candidates, votes, pending>>

\* db.delete(user): User.votes has cascade="all, delete-orphan"
DeleteUserRows(table, gone) == {v \in table : v.user_id \notin {x.id : x \in gone}}

\* mutant: deleting a user deletes the audit entries that carry its email
AuditAfterDelete_Cascade(log, gone, entry) ==
    Append(SelectSeq(log, LAMBDA a : a.user_email \notin {x.email : x \in gone}), entry)

\* the audit table after a user is deleted and the deletion is audited:
\* audit_logs has no foreign key to users, its rows stay
AuditAfterDelete(log, gone, entry) == Append(log, entry)

DeleteAdminAudit(u, email) ==
    AuditLog(u.email, "Delete Admin", "success", "Deleted admin", email, 0, <<>>)

\* mutant: delete_admin deletes the user of the id whatever its role
DeleteAdmin_AnyRole(u, admin_id) ==
    LET admin == {x \in users : x.id = admin_id} IN
    IF ~require_role(u, {"superadmin"})
    THEN /\ resp' = Response("delete_admin", u.id, 0, <<>>, 403, "role required", 0)
         /\ UNCHANGED <<now, users, elections, candidates, votes, audit, pending>>
    ELSE IF admin = {}
    THEN /\ resp' = Response("delete_admin", u.id, 0, <<>>, 404, "Admin not found", 0)
         /\ UNCHANGED <<now, users, elections, candidates, votes, audit, pending>>
    ELSE /\ AuditRoom
         /\ users' = users \ admin
         /\ votes' = DeleteUserRows(votes, admin)
         /\ audit' = Append(audit, DeleteAdminAudit(u, (CHOOSE x \in admin : TRUE).email))
         /\ resp' = Response("delete_admin", u.id, 0, <<>>, 204, "deleted", 0)
         /\ UNCHANGED <<now, elections, candidates, pending>>

\* delete_admin
DeleteAdmin(u, admin_id) ==
    LET admin == {x \in users : x.id = admin_id /\ x.role = "admin"} IN
    IF ~require_role(u, {"superadmin"})
    THEN /\ resp' = Response("delete_admin", u.id, 0, <<>>, 403, "role required", 0)
         /\ UNCHANGED <<now, users, elections, candidates, votes, audit, pending>>
    ELSE IF admin = {}
    THEN /\ resp' = Response("delete_admin", u.id, 0, <<>>, 404, "Admin not found", 0)
         /\ UNCHANGED <<now, users, elections, candidates, votes, audit, pending>>
    ELSE /\ AuditRoom
         /\ users' = users \ admin
         /\ votes' = DeleteUserRows(votes, admin)
         /\ \E x \in admin :
               audit' = AuditAfterDelete(audit, admin, DeleteAdminAudit(u, x.email))
         /\ resp' = Response("delete_admin", u.id, 0, <<>>, 204, "deleted", 0)
         /\ UNCHANGED <<now, elections, candidates, pending>>

DeleteAuditorAudit(u, email) ==
    AuditLog(u.email, "Delete Auditor", "success", "Deleted auditor", email, 0, <<>>)

\* delete_auditor
DeleteAuditor(u, auditor_id) ==
    LET auditor == {x \in users : x.id = auditor_id /\ x.role = "auditor"} IN
    IF ~require_role(u, {"admin", "superadmin"})
    THEN /\ resp' = Response("delete_auditor", u.id, 0, <<>>, 403, "role required", 0)
         /\ UNCHANGED <<now, users, elections, candidates, votes, audit, pending>>
    ELSE IF auditor = {}
    THEN /\ resp' = Response("delete_auditor", u.id, 0, <<>>, 404, "Auditor not found", 0)
         /\ UNCHANGED <<now, users, elections, candidates, votes, audit, pending>>
    ELSE /\ AuditRoom
         /\ users' = users \ auditor
         /\ votes' = DeleteUserRows(votes, auditor)
         /\ \E x \in auditor :
               audit' = AuditAfterDelete(audit, auditor, DeleteAuditorAudit(u, x.email))
         /\ resp' = Response("delete_auditor", u.id, 0, <<>>, 204, "deleted", 0)
         /\ UNCHANGED <<now, elections, candidates, pending>>

-----------------------------------------------------------------------------
(* routers/audit_logs.py: get_logs *)

\* get_logs reads the audit table for a caller the guard lets through
GetLogs(u) ==
    /\ resp' = IF require_role(u, {"auditor"})
               THEN Response("get_logs", u.id, 0, <<>>, 200, "logs", 0)
               ELSE Response("get_logs", u.id, 0, <<>>, 403, "role required", 0)
    /\ UNCHANGED <<now, users, elections, candidates, votes, audit, pending>>

-----------------------------------------------------------------------------
(* auth.py authenticate_user, routers/auth.py login_for_access_token *)

\* what a login form may carry as username
Identifiers == Emails \cup {"v1@x.com", "NACOS-0000"}

LoginPasswords == Passwords \cup {"admin123", "guess"}

\* the rows the filter of authenticate_user matches
UsersByIdentifier(identifier) ==
    {u \in users : u.email = identifier \/ u.student_id = identifier}

\* authenticate_user: the values the call may return, each the set holding
\* the user returned, or the empty set for None; .first() takes any one of
\* the matching rows
authenticate_user(identifier, password) ==
    IF UsersByIdentifier(identifier) = {} THEN {{}}
    ELSE {IF verify_password(password, u.hashed_password) THEN {u} ELSE {} :
             u \in UsersByIdentifier(identifier)}

\* mutant: the failed entry does not carry the submitted identifier
LoginFailedAudit_Anonymous(identifier) ==
    AuditLog("", "Login", "failed", "Invalid email/student_id or password",
             "", 0, <<>>)

LoginFailedAudit(identifier) ==
    AuditLog(identifier, "Login", "failed", "Invalid email/student_id or password",
             "", 0, <<>>)

LoginSuccessAudit(user) ==
    AuditLog(user.email, "Login", "success", "logged in successfully", user.email,
             0, <<>>)

\* login_for_access_token
Login(identifier, password) ==
    /\ Started
    /\ AuditRoom
    /\ \E found \in authenticate_user(identifier, password) :
          IF found = {}
          THEN /\ audit' = Append(audit, LoginFailedAudit(identifier))
               /\ resp' = Response("login", 0, 0, <<>>, 401,
                                   "Incorrect email/student_id or password", 0)
          ELSE \E user \in found :
               /\ audit' = Append(audit, LoginSuccessAudit(user))
               /\ resp' = Response("login", user.id, 0, <<>>, 200, "bearer", 0)
    /\ UNCHANGED <<now, users, elections, candidates, votes, pending>>

-----------------------------------------------------------------------------
(* auth.py: the access token and get_current_user; routers/users.py:        *)
(* read_users_me                                                            *)

\* the positions of the successful logins in an audit table: each has issued
\* one access token
IssuedAt(log) == {i \in DOMAIN log : log[i].action = "Login" /\ log[i].status = "success"}

\* the "sub" claims of the access tokens issued so far: login puts the email
\* of the user into the token and into the audit entry it commits
TokenSubjects(log) == {log[i].user_email : i \in IssuedAt(log)}

\* get_current_user: the stored users the token resolves to, by the email in
\* its "sub" claim alone (the role and the user_id of the token are not read)
get_current_user(sub) == {u \in users : u.email = sub}

\* read_users_me, for a request presenting a token issued by login
ReadUsersMe(sub) ==
    /\ sub \in TokenSubjects(audit)
    /\ IF get_current_user(sub) = {}
       THEN resp' = Response("read_users_me", 0, 0, <<>>, 401, "User not found", 0)
       ELSE \E current_user \in get_current_user(sub) :
               resp' = Response("read_users_me", current_user.id, 0, <<>>, 200, "profile", 0)
    /\ UNCHANGED <<now, users, elections, candidates, votes, audit, pending>>

-----------------------------------------------------------------------------
(* routers/elections.py live_results, routers/auditor.py auditor_results *)

\* len(c.votes): the Vote rows that name the candidate
VotesOf(c) == Cardinality({v \in votes : v.candidate_id = c.id})

CandidateResult(c) ==
    [candidateId |-> c.id, name |-> c.name, votes |-> VotesOf(c), position |-> c.position]

\* the body live_results returns: all Vote rows counted, all candidates listed
live_results ==
    [totalVotes |-> Cardinality(votes),
     candidates |-> {CandidateResult(c) : c \in candidates}]

\* the body auditor_results returns for the election it has selected
auditor_results(election) ==
    [totalVotes |-> Cardinality({v \in votes : v.election_id = election.id}),
     candidates |-> {CandidateResult(c) : c \in {x \in candidates : x.election_id = election.id}}]

\* the rows the query of auditor_results matches
OngoingElections == {e \in elections : e.status = "ongoing"}

\* live_results: any logged-in user
LiveResults(u) ==
    /\ resp' = Response("live_results", u.id, 0, <<>>, 200, "results", 0)
    /\ UNCHANGED <<now, users, elections, candidates, votes, audit, pending>>

\* auditor_results: guarded by require_role("auditor"); .first() takes any
\* one of the matching rows
AuditorResults(u) ==
    /\ IF ~require_role(u, {"auditor"})
       THEN resp' = Response("auditor_results", u.id, 0, <<>>, 403, "role required", 0)
       ELSE IF OngoingElections = {}
       THEN resp' = Response("auditor_results", u.id, 0, <<>>, 404,
                             "No ongoing election found", 0)
       ELSE \E election \in OngoingElections :
               resp' = Response("auditor_results", u.id, election.id, <<>>, 200, "results", 0)
    /\ UNCHANGED <<now, users, elections, candidates, votes, audit, pending>>

-----------------------------------------------------------------------------
(* The voting specification: cast_vote requests, concurrently, against a    *)
(* store the superadmin has populated at time 0 through create_election and *)
(* add_candidate.                                                           *)

Naive(w) == DateTime(w, FALSE, 0)

\* three create_election calls at time 0: an election open over 1..2, one
\* open over 2..3, and one whose window 0..3 has already begun
InitElections ==
    LET e1 == CreateElectionRow({}, "T1", Naive(1), Naive(2), 0)
        e2 == CreateElectionRow({e1}, "T2", Naive(2), Naive(3), 0)
        e3 == CreateElectionRow({e1, e2}, "T3", Naive(0), Naive(3), 0)
    IN  {e1, e2, e3}

\* three add_candidate calls: two candidates of election 1 for position P,
\* one candidate of election 2 for position Q
InitCandidates ==
    LET c1 == AddCandidateRow({}, 1, "A", "P")
        c2 == AddCandidateRow({c1}, 1, "B", "P")
        c3 == AddCandidateRow({c1, c2}, 2, "C", "Q")
    IN  {c1, c2, c3}

\* the audit entries of those calls (create_election of the third election
\* fails before its audit entry)
InitAudit ==
    <<RegisterAudit("v1@x.com"),
      CreateElectionAudit(SuperAdmin, "T1"), CreateElectionAudit(SuperAdmin, "T2"),
      AddCandidateAudit(SuperAdmin, 1, "A"), AddCandidateAudit(SuperAdmin, 1, "B"),
      AddCandidateAudit(SuperAdmin, 2, "C")>>

Init ==
    /\ now = 0
    /\ users = InitUsers
    /\ elections = InitElections
    /\ candidates = InitCandidates
    /\ votes = {}
    /\ audit = InitAudit
    /\ pending = EmptyBag
    /\ resp = NoResponse

Next ==
    \/ Tick
    \/ \E u \in users, election_id \in ElectionIds, candidate_ids \in Ballots :
          CastVoteValidate(u, election_id, candidate_ids)
    \/ \E r \in BagToSet(pending), token \in Tokens : CastVoteCommit(r, token)

Spec == Init /\ [][Next]_vars

-----------------------------------------------------------------------------
(* The election-management specification: create_election calls over time,  *)
(* from the store as it is after startup and one registration.              *)

Titles == {"T1"}

InitElection ==
    /\ now = 0
    /\ users = InitUsers
    /\ elections = {}
    /\ candidates = {}
    /\ votes = {}
    /\ audit = <<RegisterAudit("v1@x.com")>>
    /\ pending = EmptyBag
    /\ resp = NoResponse

NextElection ==
    \/ Tick
    \/ \E u \in users, title \in Titles, start_date \in DateInputs, end_date \in DateInputs :
          CreateElection(u, title, start_date, end_date)

SpecElection == InitElection /\ [][NextElection]_vars

-----------------------------------------------------------------------------
(* The registration specification: from an empty database, startup, then    *)
(* register_user requests running concurrently with one another and with    *)
(* create_admin and create_auditor.                                         *)

InitUsersSpec ==
    /\ now = 0
    /\ users = {}
    /\ elections = {}
    /\ candidates = {}
    /\ votes = {}
    /\ audit = <<>>
    /\ pending = EmptyBag
    /\ resp = NoResponse

NextUsers ==
    \/ Startup
    \/ \E email \in Emails, student_id \in StudentIds, password \in Passwords,
          level \in Levels, course \in Courses, role \in RequestRoles :
          RegisterValidate(email, student_id, password, level, course, role)
    \/ \E r \in BagToSet(pending) : RegisterCommit(r)
    \/ \E u \in users, email \in Emails, password \in Passwords, role \in RequestRoles :
          CreateAdmin(u, email, password, role)
    \/ \E u \in users, email \in Emails, password \in Passwords, role \in RequestRoles :
          CreateAuditor(u, email, password, role)

SpecUsers == InitUsersSpec /\ [][NextUsers]_vars

-----------------------------------------------------------------------------
(* The accounts specification: after startup and one registration, admins   *)
(* and auditors are created and deleted, users log in, the audit log is     *)
(* read.                                                                    *)

UserIds == 1..(Cardinality(users) + 1)

NextAccounts ==
    \/ \E u \in users, email \in Emails, password \in Passwords, role \in RequestRoles :
          CreateAdmin(u, email, password, role)
    \/ \E u \in users, email \in Emails, password \in Passwords, role \in RequestRoles :
          CreateAuditor(u, email, password, role)
    \/ \E u \in users, admin_id \in UserIds : DeleteAdmin(u, admin_id)
    \/ \E u \in users, auditor_id \in UserIds : DeleteAuditor(u, auditor_id)
    \/ \E identifier \in Identifiers, password \in LoginPasswords : Login(identifier, password)
    \/ \E u \in users : GetLogs(u)

SpecAccounts == InitElection /\ [][NextAccounts]_vars

-----------------------------------------------------------------------------
(* The bootstrap specification: on an empty database the application starts *)
(* (and restarts); the superadmin creates and deletes admins and auditors,  *)
(* and they create and delete auditors.                                     *)

NextBootstrap ==
    \/ Startup
    \/ \E u \in users, email \in Emails, password \in Passwords, role \in RequestRoles :
          CreateAdmin(u, email, password, role)
    \/ \E u \in users, email \in Emails, password \in Passwords, role \in RequestRoles :
          CreateAuditor(u, email, password, role)
    \/ \E u \in users, admin_id \in UserIds : DeleteAdmin(u, admin_id)
    \/ \E u \in users, auditor_id \in UserIds : DeleteAuditor(u, auditor_id)

SpecBootstrap == InitUsersSpec /\ [][NextBootstrap]_vars

-----------------------------------------------------------------------------
(* The token specification: the bootstrap specification with logins and     *)
(* requests that present the tokens the logins issued.                      *)

NextTokens ==
    \/ Startup
    \/ \E u \in users, email \in Emails, password \in Passwords, role \in RequestRoles :
          CreateAdmin(u, email, password, role)
    \/ \E u \in users, email \in Emails, password \in Passwords, role \in RequestRoles :
          CreateAuditor(u, email, password, role)
    \/ \E u \in users, admin_id \in UserIds : DeleteAdmin(u, admin_id)
    \/ \E u \in users, auditor_id \in UserIds : DeleteAuditor(u, auditor_id)
    \/ \E identifier \in Identifiers, password \in LoginPasswords : Login(identifier, password)
    \/ \E sub \in Identifiers : ReadUsersMe(sub)

SpecTokens == InitUsersSpec /\ [][NextTokens]_vars

-----------------------------------------------------------------------------
(* The results specification: the voting specification with the two result *)
(* operations.                                                              *)

NextResults ==
    \/ Tick
    \/ \E u \in users, election_id \in ElectionIds, candidate_ids \in Ballots :
          CastVoteValidate(u, election_id, candidate_ids)
    \/ \E r \in BagToSet(pending), token \in Tokens : CastVoteCommit(r, token)
    \/ \E u \in users : LiveResults(u)
    \/ \E u \in users : AuditorResults(u)

SpecResults == Init /\ [][NextResults]_vars

-----------------------------------------------------------------------------
(* The election-maintenance specification: over the two elections created  *)
(* as upcoming at time 0 and their candidates, elections are updated and    *)
(* the current election is read while time passes.                          *)

\* a title the request leaves out, or a new one
UpdateTitles == {NULL, "T9"}

\* absent, or a naive reading at time 1 or at the end of the clock
UpdateDates == {<<>>} \cup {<<Naive(w)>> : w \in {1, MaxTime}}

NextManage ==
    \/ Tick
    \/ \E u \in users, election_id \in ElectionIds, title \in UpdateTitles,
          start_date \in UpdateDates, end_date \in UpdateDates :
          UpdateElection(u, election_id, title, start_date, end_date)
    \/ \E u \in users : GetCurrentElection(u)

\* the store after the create_election calls that succeeded and the
\* add_candidate calls
InitManage ==
    /\ now = 0
    /\ users = InitUsers
    /\ elections = {e \in InitElections : Loadable(e)}
    /\ candidates = InitCandidates
    /\ votes = {}
    /\ audit = InitAudit
    /\ pending = EmptyBag
    /\ resp = NoResponse

SpecManage == InitManage /\ [][NextManage]_vars

-----------------------------------------------------------------------------
(* Vocabulary of the claims *)

\* the error taxonomy of the specification, read off a response
Kind(r) ==
    CASE r.code \in {200, 201, 204} -> "Ok"
      [] r.code = 401 -> "Unauthorized"
      [] r.code = 403 -> "Forbidden"
      [] r.code = 404 -> "NotFound"
      [] r.code = 409 -> "Conflict"
      [] r.code = 400 /\ r.detail = "Election is not active" -> "InvalidState"
      [] r.code = 400 /\ r.detail = "User already voted in this election" -> "Conflict"
      [] r.code = 400 -> "InvalidInput"
      [] OTHER -> "StorageError"

\* a response that answers a ballot which went to commit
AnswersCommit(r) == r.op = "cast_vote" /\ r.ids # <<>>

Voters == {u \in users : u.role = "voter"}

\* the candidate ids of a list all name candidates of the election, once each
GoodBallot(candidate_ids, election_id) ==
    /\ \A i \in DOMAIN candidate_ids :
          \E c \in candidates : c.id = candidate_ids[i] /\ c.election_id = election_id
    /\ \A i, j \in DOMAIN candidate_ids : i # j => candidate_ids[i] # candidate_ids[j]

\* the rows a step adds to the votes table
NewVotes == votes' \ votes

-----------------------------------------------------------------------------
(* C1 *)

\* C1: in every reachable state no two Vote rows share the same
\* (user_id, election_id, position).
C1_OneVotePerPosition ==
    \A v1 \in votes, v2 \in votes :
        v1.id # v2.id =>
            ~(v1.user_id = v2.user_id /\ v1.election_id = v2.election_id
              /\ v1.position = v2.position)

\* a single cast naming two candidates of one position has gone to commit
C1_Witness ==
    /\ AnswersCommit(resp)
    /\ \E c1 \in candidates, c2 \in candidates :
          /\ c1.id # c2.id /\ c1.election_id = c2.election_id /\ c1.position = c2.position
          /\ {c1.id, c2.id} \subseteq Range(resp.ids)
    /\ C1_OneVotePerPosition

-----------------------------------------------------------------------------
(* C2 *)

\* the request a commit step has just taken out of the bag
Committed(r) == CopiesIn(r, pending') < CopiesIn(r, pending)

\* the request a validation step has just put into the bag
Admitted(r) == CopiesIn(r, pending') > CopiesIn(r, pending)

\* C2 (as claimed): when a cast_vote commits while another cast_vote of the
\* same user for the same election is in flight, it succeeds if the user has
\* no Vote row in the election yet and is answered Conflict otherwise; it is
\* never answered with a raw storage error.
C2_ConcurrentCastsOneWins ==
    [][\A r \in BagToSet(pending) :
          (/\ Committed(r)
           /\ \E r2 \in BagToSet(pending') :
                 r2.user.id = r.user.id /\ r2.election_id = r.election_id)
          => IF existing_vote(r.user.id, r.election_id) = {}
             THEN Kind(resp') = "Ok" /\ votes' # votes
             ELSE Kind(resp') = "Conflict" /\ votes' = votes]_vars

-----------------------------------------------------------------------------
(* C3 *)

-----------------------------------------------------------------------------
(* C4 *)

\* C4: every step leaves the votes table as it was, or adds the rows of one
\* committing request in full: one row for each of its candidate ids, all for
\* its user and election; never a strict subset.
C4_AllOrNothing ==
    [][\/ votes' = votes
       \/ \E r \in BagToSet(pending) :
            /\ Committed(r)
            /\ votes \subseteq votes'
            /\ Cardinality(NewVotes) = Len(r.candidate_ids)
            /\ {v.candidate_id : v \in NewVotes} = Range(r.candidate_ids)
            /\ \A v \in NewVotes :
                  v.user_id = r.user.id /\ v.election_id = r.election_id]_vars

\* a ballot of several candidates failed at commit and none of its rows is
\* in the table
C4_Witness ==
    /\ AnswersCommit(resp)
    /\ Len(resp.ids) >= 2
    /\ Kind(resp) = "StorageError"
    /\ ~\E v \in votes : v.user_id = resp.user /\ v.election_id = resp.election

-----------------------------------------------------------------------------
(* C5 *)

\* C5 (as claimed): a ballot that passed validation is answered success with
\* a receipt, and the rows carrying that receipt are exactly one per candidate
\* id, each with the position of its own candidate.
C5_ValidCastRecorded ==
    AnswersCommit(resp) =>
        /\ Kind(resp) = "Ok"
        /\ LET rows == {v \in votes : v.receipt_id = resp.receipt} IN
           /\ Cardinality(rows) = Len(resp.ids)
           /\ \A i \in DOMAIN resp.ids :
                 \E v \in rows, c \in candidates :
                    /\ v.candidate_id = resp.ids[i] /\ c.id = resp.ids[i]
                    /\ v.user_id = resp.user /\ v.election_id = resp.election
                    /\ v.position = c.position

-----------------------------------------------------------------------------
(* C6 *)

-----------------------------------------------------------------------------
(* C7 *)

\* an answer given after the phase gate of cast_vote was passed
PastGate(r) ==
    r.detail \in {"User already voted in this election",
                  "candidate_ids must be a non-empty list",
                  "One or more candidates are invalid"}

-----------------------------------------------------------------------------
(* C8 *)

\* the answer the claimed order of checks gives: the kind of the earliest
\* violated precondition
ExpectedKind(u, e, ids) ==
    IF u.role # "voter" THEN "Forbidden"
    ELSE IF ~\E el \in elections : el.id = e THEN "NotFound"
    ELSE IF ~\E el \in elections :
                el.id = e /\ el.start_date <= now /\ now <= el.end_date
         THEN "InvalidState"
    ELSE IF \E v \in votes : v.user_id = u.id /\ v.election_id = e THEN "Conflict"
    ELSE IF Len(ids) = 0 THEN "InvalidInput"
    ELSE IF ~GoodBallot(ids, e) THEN "InvalidInput"
    ELSE "Ok"

-----------------------------------------------------------------------------
(* C9 *)

\* C9 (as claimed): a cast_vote answered Forbidden, NotFound, InvalidState,
\* Conflict or InvalidInput appends exactly one audit entry with status
\* failed and leaves the votes table unchanged.
C9_FailureAudited ==
    [][(/\ resp' # resp
        /\ resp'.op = "cast_vote"
        /\ Kind(resp') \in {"Forbidden", "NotFound", "InvalidState", "Conflict",
                            "InvalidInput"})
       => /\ votes' = votes
          /\ Len(audit') = Len(audit) + 1
          /\ SubSeq(audit', 1, Len(audit)) = audit
          /\ audit'[Len(audit')].action = "Submit Vote"
          /\ audit'[Len(audit')].status = "failed"]_vars

-----------------------------------------------------------------------------
(* C10 *)

\* C10 (as claimed): for every stored election and every time t the phase is
\* one of upcoming, active, ended; upcoming iff t < start_date, ended iff
\* t > end_date, active otherwise; the status helper, the inline computation
\* of get_current_election and the gate of cast_vote agree.
C10_PhasePartition ==
    \A el \in elections, t \in Times :
        LET p == get_election_status(el.start_date, el.end_date, t) IN
        /\ p \in {"upcoming", "active", "ended"}
        /\ (p = "upcoming" <=> t < el.start_date)
        /\ (p = "ended" <=> t > el.end_date)
        /\ (p = "active" <=> (~(t < el.start_date) /\ ~(t > el.end_date)))
        /\ computed_status(el.start_date, el.end_date, t) = p
        /\ (IsActiveWindow(el.start_date, el.end_date, t) <=> p = "active")

-----------------------------------------------------------------------------
(* C11 *)

\* the allowed set each guarded operation passes to require_role
AllowedRoles(op) ==
    CASE op = "create_admin" -> {"superadmin"}
      [] op = "delete_admin" -> {"superadmin"}
      [] op = "create_auditor" -> {"admin", "superadmin"}
      [] op = "delete_auditor" -> {"admin", "superadmin"}
      [] op = "create_election" -> {"admin", "superadmin"}
      [] op = "update_election" -> {"admin", "superadmin"}
      [] op = "get_logs" -> {"auditor"}
      [] OTHER -> {}

GuardedOps ==
    {"create_admin", "delete_admin", "create_auditor", "delete_auditor",
     "create_election", "update_election", "get_logs"}

\* C11: for every role and every allowed set the guard lets the caller through
\* iff the role is superadmin or a member of the set; and every guarded
\* operation answers Forbidden exactly to the callers who are neither
\* superadmin nor in its allowed set.
C11_GuardLetsThrough ==
    /\ [](\A role \in UserRole, allowed \in SUBSET UserRole :
            require_role([role |-> role], allowed)
                <=> (role = "superadmin" \/ role \in allowed))
    /\ [][(resp' # resp /\ resp'.op \in GuardedOps)
            => \A u \in users : u.id = resp'.user =>
                  (Kind(resp') = "Forbidden"
                     <=> ~(u.role = "superadmin" \/ u.role \in AllowedRoles(resp'.op)))]_vars

\* the superadmin has read the audit log, which is guarded by
\* require_role("auditor")
C11_Witness ==
    /\ resp.op = "get_logs"
    /\ Kind(resp) = "Ok"
    /\ \E u \in users : u.id = resp.user /\ u.role = "superadmin"
    /\ "superadmin" \notin AllowedRoles("get_logs")

-----------------------------------------------------------------------------
(* C12 *)

\* a level of the HND family, in either case
HNDLevels == {Str(<<"H", "N", "D", "2">>), Str(<<"h", "n", "d", "1">>)}

\* the users a step adds
NewUsers == users' \ users

\* C12: register_user with an HND level and no course is answered
\* InvalidInput, is not admitted and creates no user; every user a
\* registration creates has role voter, whatever role the body carried.
C12_HNDNeedsCourse ==
    /\ [](\A email \in Emails, student_id \in StudentIds, level \in HNDLevels :
            Kind(RegisterCheck(email, student_id, level, NULL)) = "InvalidInput")
    /\ [][(resp' # resp /\ resp'.op = "register_user" /\ Kind(resp') = "InvalidInput")
            => users' = users /\ pending' = pending /\ audit' = audit]_vars
    /\ [][\A r \in BagToSet(pending) : Committed(r) =>
            \A u \in NewUsers : u.role = "voter" /\ u.email = r.email]_vars

\* a registration without course was answered InvalidInput while another
\* registration has created a voter
C12_Witness ==
    /\ resp.op = "register_user"
    /\ resp.detail = "Course is required for HND students"
    /\ Kind(resp) = "InvalidInput"
    /\ \E u \in users : u.email \in Emails /\ u.role = "voter"

-----------------------------------------------------------------------------
(* C13 *)

\* a registration body collides with a stored user
Collides(email, student_id) ==
    \E u \in users :
        u.email = email \/ (student_id # NULL /\ u.student_id = student_id)

\* no two users share an email or a non-null student_id
UsersUnique ==
    \A u1 \in users, u2 \in users :
        u1.id # u2.id =>
            /\ u1.email # u2.email
            /\ u1.student_id # NULL => u1.student_id # u2.student_id

\* C13 (as claimed): users are unique by email and by non-null student_id in
\* every reachable state; a registration that collides with a stored user is
\* answered Conflict and leaves the users as they were, at its check and also
\* at its commit when the colliding user was stored after its check.
C13_UniqueOrConflict ==
    /\ []UsersUnique
    /\ [](\A email \in Emails, student_id \in StudentIds :
            Collides(email, student_id)
                => Kind(RegisterCheck(email, student_id, None, NULL)) = "Conflict")
    /\ [][\A r \in BagToSet(pending) :
            (Committed(r) /\ Collides(r.email, r.student_id))
                => Kind(resp') = "Conflict" /\ users' = users]_vars

\* the part of C13 the code keeps: uniqueness, and Conflict from the check
C13_UniqueSequentially ==
    /\ UsersUnique
    /\ \A email \in Emails, student_id \in StudentIds :
          Collides(email, student_id)
              => Kind(RegisterCheck(email, student_id, None, NULL)) = "Conflict"

-----------------------------------------------------------------------------
(* C14 *)

\* C14 (as claimed): every answer of register_user comes with exactly one new
\* 'User Registration' audit entry, whose status is success when the user was
\* created and failed when the call was rejected.
C14_RegistrationAudited ==
    [][(resp' # resp /\ resp'.op = "register_user")
        => /\ Len(audit') = Len(audit) + 1
           /\ SubSeq(audit', 1, Len(audit)) = audit
           /\ audit'[Len(audit')].action = "User Registration"
           /\ audit'[Len(audit')].status
                 = IF Kind(resp') = "Ok" THEN "success" ELSE "failed"]_vars

\* the part of C14 the code keeps: a registration that creates its user adds
\* one audit entry with status success in the same commit
C14_SuccessAudited ==
    [][(resp' # resp /\ resp'.op = "register_user" /\ Kind(resp') = "Ok")
        => /\ Cardinality(NewUsers) = 1
           /\ \E u \in NewUsers : audit' = Append(audit, RegisterAudit(u.email))]_vars

-----------------------------------------------------------------------------
(* C15 *)

\* C15 (as claimed): every stored election has start_date < end_date.
C15_StartBeforeEnd == \A el \in elections : el.start_date < el.end_date

-----------------------------------------------------------------------------
(* C17 *)

\* the elections whose end_date is not before t
Candidates17(t) == {el \in elections : ~(el.end_date < t)}

\* C17 (as claimed): get_current_election answers NotFound iff no election
\* has an end_date that is not before now, and otherwise returns one of those
\* with the earliest start_date, which is not ended.
C17_CurrentElection ==
    [][(resp' # resp /\ resp'.op = "get_current_election")
        => IF Candidates17(now) = {}
           THEN Kind(resp') = "NotFound"
           ELSE /\ Kind(resp') = "Ok"
                /\ \E el \in Candidates17(now) :
                      /\ el.id = resp'.election
                      /\ \A x \in Candidates17(now) : el.start_date <= x.start_date
                      /\ ~(now > el.end_date)]_vars

\* the part of C17 the code keeps: the same, when the earliest of those
\* elections holds a status of the stored enumeration
C17_CurrentElectionLoadable ==
    [][(/\ resp' # resp /\ resp'.op = "get_current_election"
        /\ \A el \in Candidates17(now) :
              (\A x \in Candidates17(now) : el.start_date <= x.start_date)
                  => el.status \in ElectionStatus)
        => IF Candidates17(now) = {}
           THEN Kind(resp') = "NotFound"
           ELSE /\ Kind(resp') = "Ok"
                /\ \E el \in Candidates17(now) :
                      /\ el.id = resp'.election
                      /\ \A x \in Candidates17(now) : el.start_date <= x.start_date
                      /\ ~(now > el.end_date)]_vars

-----------------------------------------------------------------------------
(* C20 *)

\* C20: update_election leaves every election but the one named by id, every
\* candidate, every Vote row and every user as they were; on the named
\* election it leaves id and every field the request did not give as they
\* were (the status apart); a call naming an absent election is answered
\* NotFound, changes nothing and writes no audit entry.
C20_UpdateFrame ==
    /\ [](\A el \in elections, title \in UpdateTitles,
             start_date \in UpdateDates, end_date \in UpdateDates :
            LET row == UpdateElectionRow(el, title, start_date, end_date, now)
                after == UpdateElectionStore(elections, el, row)
            IN  /\ {x \in after : x.id # el.id} = {x \in elections : x.id # el.id}
                /\ \A x \in after : x.id = el.id =>
                      /\ title = NULL => x.title = el.title
                      /\ start_date = <<>> => x.start_date = el.start_date
                      /\ end_date = <<>> => x.end_date = el.end_date
                /\ Cardinality({x \in after : x.id = el.id}) = 1)
    /\ [][(resp' # resp /\ resp'.op = "update_election")
            => /\ candidates' = candidates /\ votes' = votes /\ users' = users
               /\ {x \in elections' : x.id # resp'.election}
                     = {x \in elections : x.id # resp'.election}
               /\ {x.id : x \in elections'} = {x.id : x \in elections}
               /\ (\A u \in users : u.id = resp'.user =>
                      u.role \in {"admin", "superadmin"})
                  => (Kind(resp') = "NotFound"
                        <=> ~\E x \in elections : x.id = resp'.election)
               /\ Kind(resp') = "NotFound" => elections' = elections /\ audit' = audit]_vars

\* an update has given election 1 a new title and been audited, while
\* election 2 and the candidates are as they were created
C20_Witness ==
    /\ resp.op = "update_election" /\ Kind(resp) = "Ok" /\ resp.election = 1
    /\ \E el \in elections : el.id = 1 /\ el.title = "T9"
    /\ \E el \in elections : el.id = 2 /\ el \in InitElections
    /\ candidates = InitCandidates
    /\ audit[Len(audit)].action = "Update Election"

-----------------------------------------------------------------------------
(* C16 *)

\* the stored users an identifier and a password authenticate
Authenticates(identifier, password) ==
    {u \in users : /\ u.email = identifier \/ u.student_id = identifier
                   /\ u.hashed_password = get_password_hash(password)}

\* C16: authenticate_user returns a user iff the identifier is that user's
\* email or student_id and the password matches that user's hash, and it
\* returns None otherwise, the same value for an unknown identifier and for a
\* wrong password; a failed login is answered by one and the same response
\* and leaves users, elections, candidates and votes as they were.
C16_Authenticate ==
    /\ [](\A identifier \in Identifiers, password \in LoginPasswords :
            \A found \in authenticate_user(identifier, password) :
                IF Authenticates(identifier, password) = {}
                THEN found = {}
                ELSE found # {} /\ found \subseteq Authenticates(identifier, password)
                     /\ Cardinality(found) = 1)
    /\ [][(resp' # resp /\ resp'.op = "login")
            => /\ users' = users /\ elections' = elections
               /\ candidates' = candidates /\ votes' = votes
               /\ Kind(resp') = "Unauthorized"
                     => resp' = Response("login", 0, 0, <<>>, 401,
                                         "Incorrect email/student_id or password", 0)]_vars

\* a login with the email of a stored user and a wrong password has failed,
\* and so would a login with an identifier no user has
C16_Witness ==
    /\ resp.op = "login" /\ Kind(resp) = "Unauthorized"
    /\ audit[Len(audit)].action = "Login" /\ audit[Len(audit)].status = "failed"
    /\ \E u \in users : u.email = audit[Len(audit)].user_email
    /\ \E identifier \in Identifiers :
          /\ UsersByIdentifier(identifier) = {}
          /\ authenticate_user(identifier, "guess") = {{}}

-----------------------------------------------------------------------------
(* C19 *)

\* C19: every step leaves each audit entry in its place with the same
\* user_email, action, status and details; entries are only added, at the end.
C19_AuditAppendOnly ==
    [][/\ Len(audit') >= Len(audit)
       /\ \A i \in DOMAIN audit :
             /\ audit'[i].user_email = audit[i].user_email
             /\ audit'[i].action = audit[i].action
             /\ audit'[i].status = audit[i].status
             /\ audit'[i].details = audit[i].details]_vars

\* an admin has logged in and then been deleted: the entry of the login is
\* still in the log, before the entry of the deletion
C19_Witness ==
    /\ Len(audit) >= 2
    /\ audit[Len(audit)].action = "Delete Admin"
    /\ \E i \in 1..(Len(audit) - 1) :
          /\ audit[i].action = "Login" /\ audit[i].status = "success"
          /\ audit[i].user_email = audit[Len(audit)].details.name
          /\ ~\E u \in users : u.email = audit[i].user_email

-----------------------------------------------------------------------------
(* C18 *)

\* the rows of a ballot as the claims describe them: one per candidate id,
\* each with its candidate's position, all with the one receipt
RowsWithPositions(r, token) ==
    {[v EXCEPT !.position =
         (CHOOSE c \in candidates : c.id = v.candidate_id).position] :
        v \in VoteRows(r.user, r.election_id, r.candidate_ids, token, now,
                       NextId(votes) - 1)}

C18_ReceiptColumnAdmitsBallot ==
    \A r \in BagToSet(pending), token \in Tokens :
        ReceiptUniqueOK(votes, RowsWithPositions(r, token))

-----------------------------------------------------------------------------
(* C21 *)

\* the value of the stored status domain that stands for a phase
StoredPhase(phase) ==
    CASE phase = "upcoming" -> "upcoming"
      [] phase = "active" -> "ongoing"
      [] phase = "ended" -> "completed"

\* C21 (as claimed): every persisted status is one of upcoming, ongoing,
\* completed, and a write of an election (create_election, update_election)
\* persists the phase of its start_date and end_date at the time of the write.
C21_StatusIsStoredPhase ==
    /\ [](\A el \in elections : el.status \in ElectionStatus)
    /\ [][\A el \in elections' \ elections :
            el.status = StoredPhase(get_election_status(el.start_date, el.end_date, now))]_vars

\* the part of C21 the code keeps: a create_election answered with success
\* has persisted "upcoming", the phase of an election that has not begun
C21_AnsweredWriteIsUpcoming ==
    [][(resp'.op = "create_election" /\ Kind(resp') = "Ok") =>
        \A el \in elections' \ elections :
            /\ el.status = "upcoming"
            /\ get_election_status(el.start_date, el.end_date, now) = "upcoming"]_vars

-----------------------------------------------------------------------------
(* C22 *)

\* the last entry of an audit table
LastEntry(log) == log[Len(log)]

\* C22: every login attempt appends exactly one "Login" audit entry and
\* changes nothing else: with status success and the email of the user when
\* the attempt is answered with a token, with status failed and the submitted
\* identifier when it is answered Unauthorized.
C22_LoginAudited ==
    [][\A identifier \in Identifiers, password \in LoginPasswords :
          Login(identifier, password) =>
            /\ Len(audit') = Len(audit) + 1
            /\ SubSeq(audit', 1, Len(audit)) = audit
            /\ LastEntry(audit').action = "Login"
            /\ \/ /\ Kind(resp') = "Ok"
                  /\ LastEntry(audit').status = "success"
                  /\ \E u \in users :
                        /\ u.id = resp'.user
                        /\ identifier \in {u.email, u.student_id}
                        /\ LastEntry(audit').user_email = u.email
               \/ /\ Kind(resp') = "Unauthorized"
                  /\ LastEntry(audit').status = "failed"
                  /\ LastEntry(audit').user_email = identifier
            /\ UNCHANGED <<now, users, elections, candidates, votes, pending>>]_vars

\* a login by student_id has succeeded and a later one, under an email no
\* user has, was answered Unauthorized: both are in the audit table
C22_Witness ==
    /\ resp.op = "login"
    /\ Kind(resp) = "Unauthorized"
    /\ LastEntry(audit).action = "Login"
    /\ LastEntry(audit).status = "failed"
    /\ LastEntry(audit).user_email \notin {u.email : u \in users}
    /\ \E i \in DOMAIN audit :
          /\ audit[i].action = "Login"
          /\ audit[i].status = "success"
          /\ audit[i].user_email = SuperAdmin.email

-----------------------------------------------------------------------------
(* C23 *)

\* the positions of the success entries of cast_vote in an audit table
SubmitVoteEntries(log) ==
    {i \in DOMAIN log : log[i].action = "Submit Vote" /\ log[i].status = "success"}

\* the Vote rows of the cast an audit entry records
RowsOfEntry(entry) ==
    {v \in votes : /\ v.election_id = entry.details.election
                   /\ v.candidate_id \in Range(entry.details.ids)
                   /\ \E u \in users : u.id = v.user_id /\ u.email = entry.user_email}

\* C23: a "Submit Vote" success entry exists iff the Vote rows of its cast
\* exist, one row per candidate id it lists, and the commit of a ballot
\* either adds its rows together with exactly one such entry listing all its
\* candidate ids, or adds neither.
C23_AuditWithRows ==
    /\ [](\A i \in SubmitVoteEntries(audit) :
            {v.candidate_id : v \in RowsOfEntry(audit[i])} = Range(audit[i].details.ids))
    /\ [](\A v \in votes : \E i \in SubmitVoteEntries(audit) : v \in RowsOfEntry(audit[i]))
    /\ [][\A r \in BagToSet(pending) : Committed(r) =>
            IF NewVotes # {}
            THEN /\ Kind(resp') = "Ok"
                 /\ Len(audit') = Len(audit) + 1
                 /\ SubSeq(audit', 1, Len(audit)) = audit
                 /\ Len(audit') \in SubmitVoteEntries(audit')
                 /\ audit'[Len(audit')].user_email = r.user.email
                 /\ audit'[Len(audit')].details.election = r.election_id
                 /\ audit'[Len(audit')].details.ids = r.candidate_ids
            ELSE /\ Kind(resp') # "Ok"
                 /\ audit' = audit]_vars

\* the commit of a valid ballot was refused: neither its rows nor a
\* "Submit Vote" entry of its user are in the store
C23_Witness ==
    /\ AnswersCommit(resp)
    /\ GoodBallot(resp.ids, resp.election)
    /\ Kind(resp) = "StorageError"
    /\ ~\E v \in votes : v.user_id = resp.user
    /\ \A i \in SubmitVoteEntries(audit) :
          \A u \in users : u.id = resp.user => audit[i].user_email # u.email

-----------------------------------------------------------------------------
(* C24 *)

\* C24: no step modifies or removes a Vote row, so no candidate's tally
\* decreases. No reachable state holds a Vote row (C5), so the formula is
\* only ever evaluated on the empty table.
C24_VotesKept ==
    [][/\ votes \subseteq votes'
       /\ \A c \in candidates :
             Cardinality({v \in votes' : v.candidate_id = c.id})
                >= Cardinality({v \in votes : v.candidate_id = c.id})]_vars

-----------------------------------------------------------------------------
(* C25 *)

\* the users holding the role superadmin in a table
SuperAdmins(table) == {u \in table : u.role = "superadmin"}

\* C25: once startup has run a superadmin exists in every state: startup
\* creates one iff there is none (a second startup creates no second one),
\* and no operation deletes or demotes a superadmin.
C25_SuperadminStays ==
    /\ [](users # {} => Started)
    /\ [](Cardinality(SuperAdmins(users)) <= 1)
    /\ [][Startup =>
            IF SuperAdmins(users) = {}
            THEN users \subseteq users' /\ Cardinality(SuperAdmins(users')) = 1
            ELSE users' = users]_vars
    /\ [][SuperAdmins(users) # {} => SuperAdmins(users') = SuperAdmins(users)]_vars

\* after startup the superadmin has created and deleted an account, and the
\* superadmin is still there
C25_Witness ==
    /\ resp.op \in {"delete_admin", "delete_auditor"}
    /\ Kind(resp) = "Ok"
    /\ \E i \in DOMAIN audit : audit[i].action \in {"Delete Admin", "Delete Auditor"}
    /\ SuperAdmins(users) = {[SuperAdmin EXCEPT !.id = resp.user]}

-----------------------------------------------------------------------------
(* C26 *)

\* the caller of the operation a step has answered holds one of the roles
CallerHolds(roles) == \E u \in users : u.id = resp'.user /\ u.role \in roles

\* C26: a user with role admin is created only by create_admin called by a
\* superadmin, a user with role auditor only by create_auditor called by an
\* admin or a superadmin, a voter only by register_user, a superadmin only by
\* startup when there is none; the role of the created user is fixed by the
\* operation, whatever role the request carries.
C26_NoEscalation ==
    /\ [][\A x \in NewUsers :
            CASE x.role = "voter" -> resp'.op = "register_user"
              [] x.role = "admin" ->
                    resp'.op = "create_admin" /\ CallerHolds({"superadmin"})
              [] x.role = "auditor" ->
                    resp'.op = "create_auditor" /\ CallerHolds({"admin", "superadmin"})
              [] x.role = "superadmin" -> SuperAdmins(users) = {}]_vars
    /\ [][NewUsers # {} =>
            /\ Cardinality(NewUsers) = 1
            /\ (CallerHolds({"voter", "auditor"}) => \A x \in NewUsers : x.role = "voter")]_vars

\* a voter or an auditor has asked for an admin to be created and was
\* answered Forbidden; the only admins and auditors are those the superadmin
\* and the admins created
C26_Witness ==
    /\ resp.op = "create_admin"
    /\ Kind(resp) = "Forbidden"
    /\ \E u \in users : u.id = resp.user /\ u.role \in {"voter", "auditor"}
    /\ \E x \in users : x.role = "admin"
    /\ \E i \in DOMAIN audit :
          /\ audit[i].action = "Create Auditor"
          /\ \E a \in users : a.role = "admin" /\ a.email = audit[i].user_email

-----------------------------------------------------------------------------
(* C27 *)

\* C27: every Vote row belongs to a user whose role is voter: cast_vote
\* answers Forbidden to every caller whose role is not voter, the superadmin
\* included, admits no ballot of such a caller and stores no row for it.
C27_OnlyVotersVote ==
    /\ [](\A v \in votes : \E u \in users : u.id = v.user_id /\ u.role = "voter")
    /\ [](\A r \in BagToSet(pending) : r.user.role = "voter")
    /\ [](\A u \in users, e \in ElectionIds, ids \in Ballots :
            u.role # "voter" => Kind(CastVoteCheck(u, e, ids)) = "Forbidden")
    /\ [][(resp' # resp /\ resp'.op = "cast_vote") =>
            \A u \in users : (u.id = resp'.user /\ u.role # "voter") =>
                Kind(resp') = "Forbidden" /\ votes' = votes /\ pending' = pending]_vars

\* the superadmin asked to vote in an election whose window is open and was
\* answered Forbidden
C27_Witness ==
    /\ resp.op = "cast_vote"
    /\ Kind(resp) = "Forbidden"
    /\ \E u \in users : u.id = resp.user /\ u.role = "superadmin"
    /\ \E el \in ElectionRows(resp.election) :
          Loadable(el) /\ IsActiveWindow(el.start_date, el.end_date, now)
    /\ votes = {}

-----------------------------------------------------------------------------
(* C28 *)

\* the positions at which the deletion of the account of an email is audited
DeletedAt(email) ==
    {j \in DOMAIN audit : /\ audit[j].action \in {"Delete Admin", "Delete Auditor"}
                          /\ audit[j].details.name = email}

\* every token issued for the email was issued to a user deleted since
TokensOutlived(email) ==
    /\ email \in TokenSubjects(audit)
    /\ \A i \in IssuedAt(audit) :
          audit[i].user_email = email => \E j \in DeletedAt(email) : j > i

\* C28 (as claimed): a request presenting a token issued to a user who was
\* deleted afterwards is answered Unauthorized, also when another account has
\* been created with the same email since.
C28_TokenDiesWithUser ==
    [][\A sub \in Identifiers :
          (ReadUsersMe(sub) /\ TokensOutlived(sub)) => Kind(resp') = "Unauthorized"]_vars

\* the part of C28 the code keeps: while no account holds the email, the
\* token of a deleted user is answered Unauthorized
C28_UnauthorizedWhileEmailFree ==
    [][\A sub \in Identifiers :
          (ReadUsersMe(sub) /\ TokensOutlived(sub) /\ ~\E u \in users : u.email = sub)
              => Kind(resp') = "Unauthorized"]_vars

-----------------------------------------------------------------------------
(* C29 *)

RECURSIVE SumVotes(_)
\* the sum of the votes counts of a set of candidate results
SumVotes(results) ==
    IF results = {} THEN 0
    ELSE LET r == CHOOSE x \in results : TRUE IN r.votes + SumVotes(results \ {r})

\* a result body agrees with the ledger
MatchesLedger(body) ==
    /\ body.totalVotes = SumVotes(body.candidates)
    /\ \A r \in body.candidates :
          r.votes = Cardinality({v \in votes : v.candidate_id = r.candidateId})

\* the elections whose window is open
OpenElections == {el \in elections : IsActiveWindow(el.start_date, el.end_date, now)}

C29_BodiesMatchLedger ==
    /\ MatchesLedger(live_results)
    /\ \A el \in elections : MatchesLedger(auditor_results(el))

=============================================================================
